---- MODULE Spec2Model ----
(***************************************************************************)
(* The voice-command controller (the useVoiceCommands hook) together with  *)
(* the browser speech engine it drives.  Every handler of the hook is one  *)
(* action; the engine is the environment that delivers start, result,      *)
(* error and end events for the sessions the hook created.                 *)
(*                                                                         *)
(* Text is modelled as a sequence of one-character strings so that         *)
(* toLowerCase, trim and includes are computed rather than assumed.        *)
(***************************************************************************)
EXTENDS Integers, Sequences, FiniteSets, TLC

\* The number of engine sessions one behaviour may construct.
MaxSessions == 2

\* The number of fragments a transcript is joined from.
MaxFragments == 2

\* recognitionRef.current = null
Null == 0

Sessions == 1..MaxSessions

----------------------------------------------------------------------------
\* Text

UpperChars ==
  <<"A","B","C","D","E","F","G","H","I","J","K","L","M",
    "N","O","P","Q","R","S","T","U","V","W","X","Y","Z">>

LowerChars ==
  <<"a","b","c","d","e","f","g","h","i","j","k","l","m",
    "n","o","p","q","r","s","t","u","v","w","x","y","z">>

\* String.prototype.toLowerCase, one character
LowerChar(c) ==
  IF \E i \in 1..Len(UpperChars) : UpperChars[i] = c
    THEN LowerChars[CHOOSE i \in 1..Len(UpperChars) : UpperChars[i] = c]
    ELSE c

\* String.prototype.toLowerCase
ToLowerCase(str) ==
  [i \in 1..Len(str) |-> LowerChar(str[i])]

IsSpace(c) ==
  c = " "

\* String.prototype.trim: drops the leading and the trailing white space
Trim(str) ==
  LET keep == {i \in 1..Len(str) : ~IsSpace(str[i])}
      lo == CHOOSE i \in keep : \A j \in keep : i <= j
      hi == CHOOSE i \in keep : \A j \in keep : j <= i
  IN IF keep = {} THEN <<>> ELSE SubSeq(str, lo, hi)

\* String.prototype.includes: pattern occurs in str as a contiguous run
Includes(str, pattern) ==
  \E i \in 0..(Len(str) - Len(pattern)) :
    SubSeq(str, i + 1, i + Len(pattern)) = pattern

----------------------------------------------------------------------------
\* The command table of processCommand, in its source order

commands ==
  << 
     [ command |-> "capture",
       patterns |-> <<
         <<"c","a","p","t","u","r","e">>,
         <<"t","a","k","e"," ","p","h","o","t","o">>,
         <<"s","n","a","p">>,
         <<"p","h","o","t","o","g","r","a","p","h">>,
         <<"p","i","c","t","u","r","e">> >> ],
     [ command |-> "add",
       patterns |-> <<
         <<"a","d","d">>,
         <<"a","d","d"," ","t","o"," ","c","a","r","t">>,
         <<"a","d","d"," ","i","t","e","m">>,
         <<"b","u","y">> >> ],
     [ command |-> "details",
       patterns |-> <<
         <<"d","e","t","a","i","l","s">>,
         <<"m","o","r","e"," ","i","n","f","o">>,
         <<"i","n","f","o","r","m","a","t","i","o","n">>,
         <<"t","e","l","l"," ","m","e"," ","m","o","r","e">>,
         <<"w","h","a","t"," ","i","s"," ","t","h","i","s">> >> ],
     [ command |-> "cart",
       patterns |-> <<
         <<"c","a","r","t">>,
         <<"g","o"," ","t","o"," ","c","a","r","t">>,
         <<"v","i","e","w"," ","c","a","r","t">>,
         <<"s","h","o","p","p","i","n","g"," ","c","a","r","t">>,
         <<"m","y"," ","c","a","r","t">> >> ],
     [ command |-> "help",
       patterns |-> <<
         <<"h","e","l","p">>,
         <<"a","s","s","i","s","t">>,
         <<"a","s","s","i","s","t","a","n","c","e">>,
         <<"t","u","t","o","r","i","a","l">> >> ],
     [ command |-> "start",
       patterns |-> <<
         <<"s","t","a","r","t">>,
         <<"s","t","a","r","t"," ","c","a","m","e","r","a">>,
         <<"o","p","e","n"," ","c","a","m","e","r","a">>,
         <<"b","e","g","i","n">> >> ],
     [ command |-> "stop",
       patterns |-> <<
         <<"s","t","o","p">>,
         <<"s","t","o","p"," ","c","a","m","e","r","a">>,
         <<"c","l","o","s","e"," ","c","a","m","e","r","a">>,
         <<"e","n","d">> >> ],
     [ command |-> "undo",
       patterns |-> <<
         <<"u","n","d","o">>,
         <<"c","a","n","c","e","l">>,
         <<"r","e","m","o","v","e"," ","l","a","s","t">>,
         <<"g","o"," ","b","a","c","k">> >> ]
  >>

\* Transcript fragments the engine may recognise

\* "please add this to cart"
T_AddToCart ==
  <<"p","l","e","a","s","e"," ","a","d","d"," ","t","h","i","s"," ","t","o"," ","c","a","r","t">>
\* "take a snapshot"
T_Snapshot ==
  <<"t","a","k","e"," ","a"," ","s","n","a","p","s","h","o","t">>
\* " hello "
T_Hello ==
  <<" ","h","e","l","l","o"," ">>
\* "My Cart"
T_MyCart ==
  <<"M","y"," ","C","a","r","t">>
\* "friend"
T_Friend ==
  <<"f","r","i","e","n","d">>
\* "take"
T_Take ==
  <<"t","a","k","e">>
\* "photo"
T_Photo ==
  <<"p","h","o","t","o">>
\* "more info"
T_MoreInfo ==
  <<"m","o","r","e"," ","i","n","f","o">>
\* "Help me"
T_HelpMe ==
  <<"H","e","l","p"," ","m","e">>

Fragments ==
  <<T_AddToCart, T_Snapshot, T_Hello, T_MyCart, T_Friend, T_Take,
    T_Photo, T_MoreInfo, T_HelpMe>>

RECURSIVE Join(_)
\* The fragments of fs, separated by single spaces
Join(fs) ==
  IF Len(fs) = 1 THEN fs[1] ELSE fs[1] \o <<" ">> \o Join(Tail(fs))

\* Every transcript of one to MaxFragments fragments
Transcripts ==
  { Join([i \in DOMAIN f |-> Fragments[f[i]]]) :
      f \in UNION { [1..n -> 1..Len(Fragments)] : n \in 1..MaxFragments } }

\* The transcripts the engine delivers while the session lifecycle is explored
EngineTranscripts ==
  {T_AddToCart, T_Snapshot, T_Hello}

\* The callbacks the Scan page registers: every per-command handler, no onCommand
ScanOptions ==
  [handlers |-> {commands[i].command : i \in 1..Len(commands)}, onCommand |-> FALSE]

\* The callback sets a caller may register: the Scan page's, none at all, and
\* one per-command handler together with onCommand.
OptionSets ==
  { ScanOptions,
    [handlers |-> {}, onCommand |-> FALSE],
    [handlers |-> {"add"}, onCommand |-> TRUE] }

ErrorKinds ==
  {"not-allowed", "no-speech", "aborted", "network"}

----------------------------------------------------------------------------
\* State

VARIABLES
  phase,            \* "init" (rendered, effects not yet run), "mounted", "unmounted"
  envSupported,     \* window.SpeechRecognition || window.webkitSpeechRecognition exists
  options,          \* the callbacks the page registered
  isSupported,      \* useState(false)
  isListening,      \* useState(false)
  lastCommand,      \* useState(null), "none" for null
  recognitionRef,   \* useRef(null): the owned session, or Null
  engine,           \* the engine's status of every session
  stopped,          \* the sessions stopListening has run on
  unmountedWhileListening,  \* isListening at the moment of the unmount
  denied,           \* a not-allowed error arrived and no start or toggle was requested since
  activations,      \* the activation announcements made, counted up to ActivationCap
  lastOp,           \* the handler that ran last, with its input and return value
  log               \* the calls the handler that ran last made, in order

vars ==
  <<phase, envSupported, options, isSupported, isListening, lastCommand,
    recognitionRef, engine, stopped, unmountedWhileListening, denied,
    activations, lastOp, log>>

\* One call made by a handler: the callee, the session and the message or command
Call(k, s, m) ==
  [k |-> k, s |-> s, m |-> m]

Op(op, s, arg, t, ret) ==
  [op |-> op, s |-> s, arg |-> arg, t |-> t, ret |-> ret]

MsgUnsupported == "Voice commands are not supported in this browser."
MsgActivated == "Voice commands activated. Say a command like capture, add, or cart."
MsgDeactivated == "Voice commands deactivated."
MsgDenied == "Microphone permission denied. Please allow microphone access."
MsgNotRecognized == "Command not recognized. Try: capture, add, cart, help."
MsgRecognized(command) == "Command recognized: " \o command
MsgVoiceError(error) == "Voice error: " \o error

----------------------------------------------------------------------------
\* processCommand

\* A matcher that lets the longest matching phrase decide instead of the
\* first matching entry
MatchFrom_LongestPhrase(lowerTranscript, i) ==
  LET hits == { <<k, j>> \in (1..Len(commands)) \X (1..5) :
                  /\ k >= i
                  /\ j <= Len(commands[k].patterns)
                  /\ Includes(lowerTranscript, commands[k].patterns[j]) }
      best == CHOOSE h \in hits : \A g \in hits :
                \/ Len(commands[g[1]].patterns[g[2]]) < Len(commands[h[1]].patterns[h[2]])
                \/ /\ Len(commands[g[1]].patterns[g[2]]) = Len(commands[h[1]].patterns[h[2]])
                   /\ h[1] <= g[1]
  IN IF hits = {} THEN 0 ELSE best[1]

RECURSIVE MatchFrom(_, _)
\* for (const { patterns, command, handler } of commands)
\*   if (patterns.some(pattern => lowerTranscript.includes(pattern)))
\* The index of the entry the loop returns at, 0 when it falls through.
MatchFrom(lowerTranscript, i) ==
  IF i > Len(commands) THEN 0
  ELSE IF \E j \in 1..Len(commands[i].patterns) :
            Includes(lowerTranscript, commands[i].patterns[j])
    THEN i
    ELSE MatchFrom(lowerTranscript, i + 1)

\* const lowerTranscript = transcript.toLowerCase().trim(), then the loop:
\* the entry processCommand matches, tabulated for every transcript
Classify ==
  [transcript \in Transcripts |-> MatchFrom(Trim(ToLowerCase(transcript)), 1)]

\* A processCommand that resets lastCommand when nothing matches
processCommand_ClearsLast(transcript) ==
  LET i == Classify[transcript]
      command == commands[i].command
  IN IF i # 0
       THEN [ lastCommand |-> command,
              calls |-> <<Call("setLastCommand", Null, command),
                          Call("announce", Null, MsgRecognized(command))>>
                        \o (IF command \in options.handlers
                              THEN <<Call("handler", Null, command)>> ELSE <<>>)
                        \o (IF options.onCommand
                              THEN <<Call("onCommand", Null, command)>> ELSE <<>>),
              ret |-> command ]
       ELSE [ lastCommand |-> "none",
              calls |-> <<Call("setLastCommand", Null, "none"),
                          Call("announce", Null, MsgNotRecognized)>>,
              ret |-> "null" ]

\* A processCommand that calls the generic onCommand before the command's own
\* handler
processCommand_GenericFirst(transcript) ==
  LET i == Classify[transcript]
      command == commands[i].command
  IN IF i # 0
       THEN [ lastCommand |-> command,
              calls |-> <<Call("setLastCommand", Null, command),
                          Call("announce", Null, MsgRecognized(command))>>
                        \o (IF options.onCommand
                              THEN <<Call("onCommand", Null, command)>> ELSE <<>>)
                        \o (IF command \in options.handlers
                              THEN <<Call("handler", Null, command)>> ELSE <<>>),
              ret |-> command ]
       ELSE [ lastCommand |-> lastCommand,
              calls |-> <<Call("announce", Null, MsgNotRecognized)>>,
              ret |-> "null" ]

\* The effect of processCommand(transcript) in the current state: the new
\* lastCommand, the calls made in order, and the value returned.
processCommand(transcript) ==
  LET i == Classify[transcript]
      command == commands[i].command
  IN IF i # 0
       THEN [ lastCommand |-> command,
              calls |-> <<Call("setLastCommand", Null, command),
                          Call("announce", Null, MsgRecognized(command))>>
                        \o (IF command \in options.handlers
                              THEN <<Call("handler", Null, command)>> ELSE <<>>)
                        \o (IF options.onCommand
                              THEN <<Call("onCommand", Null, command)>> ELSE <<>>),
              ret |-> command ]
       ELSE [ lastCommand |-> lastCommand,
              calls |-> <<Call("announce", Null, MsgNotRecognized)>>,
              ret |-> "null" ]

----------------------------------------------------------------------------
\* The engine

\* The session a `new SpeechRecognition()` yields: the first not yet constructed
NextSession ==
  IF \E s \in Sessions : engine[s] = "none"
    THEN CHOOSE s \in Sessions : engine[s] = "none" /\ \A r \in Sessions : r < s => engine[r] # "none"
    ELSE Null

\* recognition.stop(): a started session winds down, any other ignores the call
EngineStop(status) ==
  CASE status = "starting" -> "stoppingEarly"
    [] status = "running" -> "stopping"
    [] OTHER -> status

\* The hook after its first render, for a caller registering one of optionSets
InitWith(optionSets) ==
  /\ phase = "init"
  /\ envSupported \in BOOLEAN
  /\ options \in optionSets
  /\ isSupported = FALSE
  /\ isListening = FALSE
  /\ lastCommand = "none"
  /\ recognitionRef = Null
  /\ engine = [s \in Sessions |-> "none"]
  /\ stopped = {}
  /\ unmountedWhileListening = FALSE
  /\ denied = FALSE
  /\ activations = 0
  /\ lastOp = Op("render", Null, "", <<>>, "")
  /\ log = <<>>

\* The activation announcements are counted as far as one more than the
\* start requests a behaviour can have accepted.
ActivationCap ==
  MaxSessions + 1

\* Whether recognition.stop() delivers the session's end event before it
\* returns.  The SpeechRecognition interface the hook is written against
\* does not say when the event is dispatched; only a started session has one
\* to deliver.
EndDuringStop(status) ==
  IF status \in {"starting", "running"} THEN BOOLEAN ELSE {FALSE}

Init ==
  InitWith({ScanOptions})

InitClassify ==
  InitWith(OptionSets)

----------------------------------------------------------------------------
\* The hook
\* The requests (start, stop, toggle) come from the rendered page, so they are
\* made between the mount effects and the unmount.

\* useEffect(() => setIsSupported(!!SpeechRecognition), [])
SupportEffect ==
  /\ phase = "init"
  /\ phase' = "mounted"
  /\ isSupported' = envSupported
  /\ lastOp' = Op("mount", Null, "", <<>>, "")
  /\ log' = <<>>
  /\ UNCHANGED <<envSupported, options, isListening, lastCommand, recognitionRef,
                 engine, stopped, unmountedWhileListening,
                 denied, activations>>

\* A startListening without the isSupported guard
DoStart_NoSupportCheck(threw) ==
  LET recognition == NextSession
  IN /\ recognition # Null
     /\ recognitionRef' = recognition
     /\ engine' = [engine EXCEPT ![recognition] = IF threw THEN "created" ELSE "starting"]
     /\ log' = <<Call("new", recognition, ""),
                 Call(IF threw THEN "startThrew" ELSE "start", recognition, "")>>
     /\ UNCHANGED <<isListening, stopped>>

\* The body of startListening; threw: recognition.start() throws
DoStart(threw) ==
  IF ~isSupported
    THEN /\ log' = <<Call("speak", Null, MsgUnsupported)>>
         /\ UNCHANGED <<recognitionRef, engine, isListening, stopped>>
    ELSE LET recognition == NextSession
         IN /\ recognition # Null
            /\ recognitionRef' = recognition
            /\ engine' = [engine EXCEPT ![recognition] = IF threw THEN "created" ELSE "starting"]
            /\ log' = <<Call("new", recognition, ""),
                        Call(IF threw THEN "startThrew" ELSE "start", recognition, "")>>
            /\ UNCHANGED <<isListening, stopped>>

\* A stopListening that stops the session but keeps the handle
DoStop_KeepsHandle ==
  IF recognitionRef # Null
    THEN LET recognition == recognitionRef
         IN /\ recognitionRef' = recognitionRef
            /\ engine' = [engine EXCEPT ![recognition] = EngineStop(@)]
            /\ isListening' = FALSE
            /\ stopped' = stopped \cup {recognition}
            /\ log' = <<Call("stop", recognition, ""),
                        Call("setIsListening", Null, "false"),
                        Call("announce", Null, MsgDeactivated)>>
    ELSE /\ log' = <<>>
         /\ UNCHANGED <<recognitionRef, engine, isListening, stopped>>

\* A stopListening that announces the deactivation even when nothing is owned
DoStop_AlwaysAnnounces ==
  IF recognitionRef # Null
    THEN LET recognition == recognitionRef
         IN /\ recognitionRef' = Null
            /\ engine' = [engine EXCEPT ![recognition] = EngineStop(@)]
            /\ isListening' = FALSE
            /\ stopped' = stopped \cup {recognition}
            /\ log' = <<Call("stop", recognition, ""),
                        Call("setIsListening", Null, "false"),
                        Call("announce", Null, MsgDeactivated)>>
    ELSE /\ isListening' = FALSE
         /\ log' = <<Call("setIsListening", Null, "false"),
                     Call("announce", Null, MsgDeactivated)>>
         /\ UNCHANGED <<recognitionRef, engine, stopped>>

\* The body of stopListening.  The handle is cleared before stop(), so an end
\* event delivered inside stop() finds it null and only sets isListening.
DoStop ==
  IF recognitionRef # Null
    THEN LET recognition == recognitionRef
         IN \E endNow \in EndDuringStop(engine[recognition]) :
              /\ recognitionRef' = Null
              /\ engine' = [engine EXCEPT ![recognition] =
                              IF endNow THEN "ended" ELSE EngineStop(@)]
              /\ isListening' = FALSE
              /\ stopped' = stopped \cup {recognition}
              /\ log' = <<Call("stop", recognition, "")>>
                        \o (IF endNow THEN <<Call("setIsListening", Null, "false")>>
                                      ELSE <<>>)
                        \o <<Call("setIsListening", Null, "false"),
                             Call("announce", Null, MsgDeactivated)>>
    ELSE /\ log' = <<>>
         /\ UNCHANGED <<recognitionRef, engine, isListening, stopped>>

startListening ==
  /\ phase = "mounted"
  /\ \E threw \in (IF isSupported THEN BOOLEAN ELSE {FALSE}) : DoStart(threw)
  /\ denied' = FALSE
  /\ lastOp' = Op("start", Null, "", <<>>, "")
  /\ UNCHANGED <<phase, envSupported, options, isSupported, lastCommand,
                 unmountedWhileListening,
                 activations>>

\* A stopListening that also forgets the last recognised command
stopListening_ResetsLastCommand ==
  /\ phase = "mounted"
  /\ DoStop
  /\ lastCommand' = "none"
  /\ lastOp' = Op("stop", Null, "", <<>>, "")
  /\ UNCHANGED <<phase, envSupported, options, isSupported, unmountedWhileListening,
                 denied, activations>>

stopListening ==
  /\ phase = "mounted"
  /\ DoStop
  /\ lastOp' = Op("stop", Null, "", <<>>, "")
  /\ UNCHANGED <<phase, envSupported, options, isSupported, lastCommand,
                 unmountedWhileListening,
                 denied, activations>>

\* A toggle that dispatches on the owned handle instead of isListening
toggleListening_ByHandle ==
  /\ phase = "mounted"
  /\ IF recognitionRef # Null
       THEN DoStop
       ELSE \E threw \in (IF isSupported THEN BOOLEAN ELSE {FALSE}) : DoStart(threw)
  /\ denied' = FALSE
  /\ lastOp' = Op("toggle", Null, "", <<>>, "")
  /\ UNCHANGED <<phase, envSupported, options, isSupported, lastCommand,
                 unmountedWhileListening,
                 activations>>

toggleListening ==
  /\ phase = "mounted"
  /\ IF isListening
       THEN DoStop
       ELSE \E threw \in (IF isSupported THEN BOOLEAN ELSE {FALSE}) : DoStart(threw)
  /\ denied' = FALSE
  /\ lastOp' = Op("toggle", Null, "", <<>>, "")
  /\ UNCHANGED <<phase, envSupported, options, isSupported, lastCommand,
                 unmountedWhileListening,
                 activations>>

\* The cleanup of the unmount effect: recognitionRef.current.stop(), then
\* recognitionRef.current = null.  An end event delivered inside stop() runs
\* onend while the handle still is the session.
Cleanup ==
  /\ phase = "mounted"
  /\ phase' = "unmounted"
  /\ unmountedWhileListening' = isListening
  /\ IF recognitionRef # Null
       THEN /\ \E endNow \in EndDuringStop(engine[recognitionRef]) :
                 IF endNow
                   THEN \E threw \in BOOLEAN :
                          /\ engine' = [engine EXCEPT ![recognitionRef] =
                                          IF threw THEN "ended" ELSE "starting"]
                          /\ isListening' = FALSE
                          /\ log' = <<Call("stop", recognitionRef, ""),
                                      Call("setIsListening", Null, "false"),
                                      Call(IF threw THEN "startThrew" ELSE "start",
                                           recognitionRef, "")>>
                   ELSE /\ engine' = [engine EXCEPT ![recognitionRef] = EngineStop(@)]
                        /\ log' = <<Call("stop", recognitionRef, "")>>
                        /\ UNCHANGED isListening
            /\ recognitionRef' = Null
       ELSE /\ log' = <<>>
            /\ UNCHANGED <<engine, recognitionRef, isListening>>
  /\ lastOp' = Op("unmount", Null, "", <<>>, "")
  /\ UNCHANGED <<envSupported, options, isSupported, lastCommand, stopped,
                 denied, activations>>

----------------------------------------------------------------------------
\* The handlers startListening installs on a session.  They stay installed
\* for the life of the session, whatever becomes of the hook.
\* A state setter called after the unmount is modelled as the write the source
\* states; nothing renders the value any more.
\*
\* The engine: start() on a constructed or ended session either throws or
\* leaves it "starting"; the start event makes it "running"; stop() makes a
\* started session wind down ("stoppingEarly" before its start event,
\* "stopping" after), during which it may still deliver its start event, a
\* last result or an error; an error event leaves the session "closing";
\* the end event leaves it "ended".  A running session may end by itself.
\* Events are delivered between handlers; stop() alone may also deliver the
\* end event of the session it stops before it returns (EndDuringStop).

\* recognition.onstart
onstart(s) ==
  /\ engine[s] \in {"starting", "stoppingEarly"}
  /\ engine' = [engine EXCEPT ![s] = IF @ = "starting" THEN "running" ELSE "stopping"]
  /\ isListening' = TRUE
  /\ log' = <<Call("setIsListening", Null, "true"),
              Call("announce", Null, MsgActivated)>>
  /\ activations' = IF activations < ActivationCap THEN activations + 1 ELSE activations
  /\ lastOp' = Op("onstart", s, "", <<>>, "")
  /\ UNCHANGED <<phase, envSupported, options, isSupported, lastCommand,
                 recognitionRef, stopped, unmountedWhileListening,
                 denied>>

\* An onend that never restarts the session
onend_NoRestart(s) ==
  /\ engine[s] \in {"running", "stoppingEarly", "stopping", "closing"}
  /\ isListening' = FALSE
  /\ engine' = [engine EXCEPT ![s] = "ended"]
  /\ log' = <<Call("setIsListening", Null, "false")>>
  /\ lastOp' = Op("onend", s, "", <<>>, "")
  /\ UNCHANGED <<phase, envSupported, options, isSupported, lastCommand,
                 recognitionRef, stopped, unmountedWhileListening,
                 denied, activations>>

\* recognition.onend; threw: the restart's recognition.start() throws
onend(s) ==
  /\ engine[s] \in {"running", "stoppingEarly", "stopping", "closing"}
  /\ isListening' = FALSE
  /\ IF recognitionRef = s
       THEN \E threw \in BOOLEAN :
              /\ engine' = [engine EXCEPT ![s] = IF threw THEN "ended" ELSE "starting"]
              /\ log' = <<Call("setIsListening", Null, "false"),
                          Call(IF threw THEN "startThrew" ELSE "start", s, "")>>
       ELSE /\ engine' = [engine EXCEPT ![s] = "ended"]
            /\ log' = <<Call("setIsListening", Null, "false")>>
  /\ lastOp' = Op("onend", s, "", <<>>, "")
  /\ UNCHANGED <<phase, envSupported, options, isSupported, lastCommand,
                 recognitionRef, stopped, unmountedWhileListening,
                 denied, activations>>

\* recognition.onresult, for a result carrying transcript
onresult(s, transcript, isFinal) ==
  /\ engine[s] \in {"running", "stopping"}
  /\ IF isFinal
       THEN LET r == processCommand(transcript)
            IN /\ lastCommand' = r.lastCommand
               /\ log' = r.calls
               /\ lastOp' = Op("onresult", s, "final", transcript, r.ret)
       ELSE /\ log' = <<>>
            /\ lastOp' = Op("onresult", s, "interim", transcript, "")
            /\ UNCHANGED lastCommand
  /\ UNCHANGED <<phase, envSupported, options, isSupported, isListening,
                 recognitionRef, engine, stopped, unmountedWhileListening,
                 denied, activations>>

\* An onerror that treats not-allowed like any other reported error
onerror_NotAllowedOnlyAnnounced(s, error) ==
  /\ engine[s] \in {"starting", "running", "stoppingEarly", "stopping"}
  /\ engine' = [engine EXCEPT ![s] = "closing"]
  /\ log' = IF error # "no-speech" /\ error # "aborted"
              THEN <<Call("announce", Null, MsgVoiceError(error))>>
              ELSE <<>>
  /\ denied' = (denied \/ error = "not-allowed")
  /\ lastOp' = Op("onerror", s, error, <<>>, "")
  /\ UNCHANGED <<phase, envSupported, options, isSupported, isListening, lastCommand,
                 recognitionRef, stopped, unmountedWhileListening,
                 activations>>

\* An onerror that announces every error other than not-allowed
onerror_AnnouncesBenign(s, error) ==
  /\ engine[s] \in {"starting", "running", "stoppingEarly", "stopping"}
  /\ engine' = [engine EXCEPT ![s] = "closing"]
  /\ IF error = "not-allowed"
       THEN /\ isListening' = FALSE
            /\ log' = <<Call("speak", Null, MsgDenied),
                        Call("setIsListening", Null, "false")>>
       ELSE /\ log' = <<Call("announce", Null, MsgVoiceError(error))>>
            /\ UNCHANGED isListening
  /\ denied' = (denied \/ error = "not-allowed")
  /\ lastOp' = Op("onerror", s, error, <<>>, "")
  /\ UNCHANGED <<phase, envSupported, options, isSupported, lastCommand,
                 recognitionRef, stopped, unmountedWhileListening,
                 activations>>

\* recognition.onerror, for event.error = error; the engine ends the session after it
onerror(s, error) ==
  /\ engine[s] \in {"starting", "running", "stoppingEarly", "stopping"}
  /\ engine' = [engine EXCEPT ![s] = "closing"]
  /\ IF error = "not-allowed"
       THEN /\ isListening' = FALSE
            /\ log' = <<Call("speak", Null, MsgDenied),
                        Call("setIsListening", Null, "false")>>
       ELSE /\ log' = IF error # "no-speech" /\ error # "aborted"
                        THEN <<Call("announce", Null, MsgVoiceError(error))>>
                        ELSE <<>>
            /\ UNCHANGED isListening
  /\ denied' = (denied \/ error = "not-allowed")
  /\ lastOp' = Op("onerror", s, error, <<>>, "")
  /\ UNCHANGED <<phase, envSupported, options, isSupported, lastCommand,
                 recognitionRef, stopped, unmountedWhileListening,
                 activations>>

----------------------------------------------------------------------------
\* Specifications

Next ==
  \/ SupportEffect
  \/ startListening
  \/ stopListening
  \/ toggleListening
  \/ Cleanup
  \/ \E s \in Sessions : onstart(s)
  \/ \E s \in Sessions : onend(s)
  \/ \E s \in Sessions, t \in EngineTranscripts, isFinal \in BOOLEAN : onresult(s, t, isFinal)
  \/ \E s \in Sessions, error \in ErrorKinds : onerror(s, error)

Spec ==
  Init /\ [][Next]_vars

\* One session is started and brought to listening; the engine then delivers
\* final results drawn from every transcript.
NextClassify ==
  \/ SupportEffect
  \/ (recognitionRef = Null /\ startListening)
  \/ \E s \in Sessions : onstart(s)
  \/ \E s \in Sessions, t \in Transcripts : onresult(s, t, TRUE)

SpecClassify ==
  InitClassify /\ [][NextClassify]_vars

----------------------------------------------------------------------------
\* The positions of calls in which a call to one of callees is made
CallsTo(calls, callees) ==
  {i \in 1..Len(calls) : calls[i].k \in callees}

\* The hook with neither stop nor teardown requested, on an engine that accepts
\* every start(): it delivers the start event of a session it has started
\* (strong fairness: an error may withdraw the event, the restart offers it
\* again) and the end event of a session that is running or winding down.
EngineAccepts ==
  CallsTo(log', {"startThrew"}) = {}

NextLive ==
  \/ SupportEffect
  \/ (startListening /\ EngineAccepts)
  \/ \E s \in Sessions : onstart(s)
  \/ \E s \in Sessions : (onend(s) /\ EngineAccepts)
  \/ \E s \in Sessions, t \in EngineTranscripts, isFinal \in BOOLEAN : onresult(s, t, isFinal)
  \/ \E s \in Sessions, error \in ErrorKinds : onerror(s, error)

SpecLive ==
  /\ Init
  /\ [][NextLive]_vars
  /\ \A s \in Sessions : SF_vars(onstart(s))
  /\ \A s \in Sessions : WF_vars(onend(s) /\ EngineAccepts)

----------------------------------------------------------------------------
\* Properties

\* The sessions started on the engine and neither stopped nor ended
ActiveSessions ==
  {s \in Sessions : engine[s] \in {"starting", "running"}}

\* C1: in every reachable state at most one session the controller created
\* is active, i.e. started on the engine and not yet stopped.
C1_AtMostOneActiveSession ==
  Cardinality(ActiveSessions) <= 1

\* C2: once stopListening has run on a session, no handler ever calls
\* start() on that session again, and the end handler calls start() only on
\* the session that is the owned handle.
C2_NoRestartAfterStop ==
  [][ /\ \A s \in stopped :
           \A i \in CallsTo(log', {"start", "startThrew"}) : log'[i].s # s
      /\ lastOp'.op = "onend" =>
           \A i \in CallsTo(log', {"start", "startThrew"}) :
             log'[i].s = lastOp'.s /\ recognitionRef = lastOp'.s ]_vars

\* A stopped session delivers its end event after a new session was started.
C2_Witness ==
  /\ lastOp.op = "onend"
  /\ lastOp.s \in stopped
  /\ recognitionRef # Null
  /\ CallsTo(log, {"start", "startThrew"}) = {}

\* C3 as stated: whenever isListening is false, stopListening calls nothing,
\* and leaves the owned handle, isListening and the engine as they are.
C3_StopNoOpWhenIdle ==
  [][ (lastOp'.op = "stop" /\ ~isListening) =>
        (log' = <<>> /\ UNCHANGED <<recognitionRef, isListening, engine>>) ]_vars

\* C3 as amended: whenever no session is owned (the handle is null),
\* stopListening calls nothing and leaves the handle, isListening and the
\* engine as they are.
C3_StopNoOpWithoutSession ==
  [][ (lastOp'.op = "stop" /\ recognitionRef = Null) =>
        (log' = <<>> /\ UNCHANGED <<recognitionRef, isListening, engine>>) ]_vars

\* stopListening has run a second time, after a session was started and stopped.
C3_Witness ==
  /\ lastOp.op = "stop"
  /\ log = <<>>
  /\ recognitionRef = Null
  /\ stopped # {}

\* C4: after an unmount while listening, no handler calls announce or speak.
C4_SilentAfterUnmount ==
  (phase = "unmounted" /\ unmountedWhileListening) =>
    CallsTo(log, {"announce", "speak"}) = {}

\* C5: the error handler, on not-allowed, leaves isListening false, speaks
\* the permission-denied notice once and announces nothing, keeps the owned
\* handle and does not call stop.
C5_NotAllowedForcesIdle ==
  [][ (lastOp'.op = "onerror" /\ lastOp'.arg = "not-allowed") =>
        /\ isListening' = FALSE
        /\ Cardinality(CallsTo(log', {"speak"})) = 1
        /\ \A i \in CallsTo(log', {"speak"}) : log'[i].m = MsgDenied
        /\ CallsTo(log', {"announce", "stop"}) = {}
        /\ recognitionRef' = recognitionRef ]_vars

\* not-allowed arrived for the owned session while the hook was listening.
C5_Witness ==
  /\ lastOp.op = "onerror"
  /\ lastOp.arg = "not-allowed"
  /\ recognitionRef = lastOp.s
  /\ ~isListening
  /\ log = <<Call("speak", Null, MsgDenied), Call("setIsListening", Null, "false")>>

\* C6: a start request (startListening, or toggleListening while idle) made
\* while isSupported is false leaves isListening, the owned handle and the
\* engine unchanged and speaks the unsupported notice exactly once.
C6_UnsupportedStartRejected ==
  [][ ( /\ ~isSupported
        /\ \/ lastOp'.op = "start"
           \/ lastOp'.op = "toggle" /\ ~isListening ) =>
        /\ UNCHANGED <<isListening, recognitionRef, engine>>
        /\ log' = <<Call("speak", Null, MsgUnsupported)>> ]_vars

\* A start request was made where the environment has no speech recognition.
C6_Witness ==
  /\ lastOp.op = "start"
  /\ phase = "mounted"
  /\ ~isSupported
  /\ ~envSupported
  /\ log = <<Call("speak", Null, MsgUnsupported)>>

\* C7: toggleListening does what stopListening does when isListening is
\* true and what startListening does when it is false.
C7_ToggleDispatchesOnIsListening ==
  [][ lastOp'.op = "toggle" =>
        IF isListening THEN DoStop ELSE \E threw \in BOOLEAN : DoStart(threw) ]_vars

\* A toggle while listening stopped the owned session.
C7_Witness ==
  /\ lastOp.op = "toggle"
  /\ CallsTo(log, {"stop"}) # {}
  /\ recognitionRef = Null
  /\ ~isListening

\* C8: the error handler, on no-speech or aborted, leaves isListening,
\* lastCommand and the owned handle unchanged and calls nothing.
C8_BenignErrorsIgnored ==
  [][ (lastOp'.op = "onerror" /\ lastOp'.arg \in {"no-speech", "aborted"}) =>
        (log' = <<>> /\ UNCHANGED <<isListening, lastCommand, recognitionRef>>) ]_vars

\* aborted arrived for the owned session while the hook was listening.
C8_Witness ==
  /\ lastOp.op = "onerror"
  /\ lastOp.arg = "aborted"
  /\ isListening
  /\ recognitionRef = lastOp.s
  /\ log = <<>>

\* The fixed order of the commands
PriorityOrder ==
  <<"capture", "add", "details", "cart", "help", "start", "stop", "undo">>

\* The phrases configured for command
PhrasesOf(command) ==
  UNION { {commands[i].patterns[j] : j \in 1..Len(commands[i].patterns)} :
            i \in {k \in 1..Len(commands) : commands[k].command = command} }

\* The positions in PriorityOrder of the commands with a phrase in transcript
TriggeredBy ==
  [transcript \in Transcripts |->
     {k \in 1..Len(PriorityOrder) :
        \E p \in PhrasesOf(PriorityOrder[k]) : Includes(Trim(ToLowerCase(transcript)), p)}]

\* C9: for a transcript holding a trigger phrase, processCommand returns the
\* first command, in the order capture, add, details, cart, help, start,
\* stop, undo, that has a phrase in the lowercased and trimmed transcript.
C9_FirstCommandInTableOrder ==
  (lastOp.op = "onresult" /\ lastOp.arg = "final" /\ TriggeredBy[lastOp.t] # {}) =>
    \E k \in TriggeredBy[lastOp.t] :
      /\ \A l \in TriggeredBy[lastOp.t] : k <= l
      /\ lastOp.ret = PriorityOrder[k]

\* "My Cart please add this to cart" was classified: it holds cart and add
\* phrases, the cart phrase first in the text and the longest, and add won.
C9_Witness ==
  /\ lastOp.op = "onresult"
  /\ lastOp.t = Join(<<T_MyCart, T_AddToCart>>)
  /\ {2, 4} \subseteq TriggeredBy[lastOp.t]
  /\ lastOp.ret = "add"

\* C10: for a transcript holding no trigger phrase, processCommand returns
\* null, makes the not-recognized announcement and no other call, and
\* leaves lastCommand unchanged.
C10_UnmatchedTranscript ==
  [][ (lastOp'.op = "onresult" /\ lastOp'.arg = "final" /\ TriggeredBy[lastOp'.t] = {}) =>
        /\ lastOp'.ret = "null"
        /\ log' = <<Call("announce", Null, MsgNotRecognized)>>
        /\ lastCommand' = lastCommand ]_vars

\* An unmatched transcript was classified after a command had been recorded.
C10_Witness ==
  /\ lastOp.op = "onresult"
  /\ lastOp.arg = "final"
  /\ TriggeredBy[lastOp.t] = {}
  /\ lastOp.ret = "null"
  /\ lastCommand # "none"
  /\ log = <<Call("announce", Null, MsgNotRecognized)>>

\* C11: lastCommand changes only in a result handler that classifies its
\* transcript, and then to the matched command; every other handler leaves
\* it as it is, and once set it never becomes none again.
C11_LastCommandOnlyOnMatch ==
  [][ /\ lastCommand' # lastCommand =>
           /\ lastOp'.op = "onresult"
           /\ lastOp'.arg = "final"
           /\ TriggeredBy[lastOp'.t] # {}
           /\ lastCommand' = lastOp'.ret
           /\ \E k \in 1..Len(PriorityOrder) : lastCommand' = PriorityOrder[k]
      /\ lastCommand # "none" => lastCommand' # "none" ]_vars

\* A command was recorded, and survived a stop, a new start and the old
\* session's end event.
C11_Witness ==
  /\ lastCommand = "add"
  /\ lastOp.op = "onend"
  /\ lastOp.s \in stopped
  /\ recognitionRef # Null

\* C12: on a match processCommand makes, in this order and once each: the
\* write of lastCommand, the confirmation announcement naming the command,
\* the call of that command's handler if one is registered, and the call of
\* onCommand with the command if it is registered; it calls nothing else.
C12_MatchCallOrder ==
  (lastOp.op = "onresult" /\ lastOp.arg = "final" /\ lastOp.ret # "null") =>
    LET c == lastOp.ret
        own == IF c \in options.handlers THEN <<Call("handler", Null, c)>> ELSE <<>>
        generic == IF options.onCommand THEN <<Call("onCommand", Null, c)>> ELSE <<>>
    IN /\ lastCommand = c
       /\ log = <<Call("setLastCommand", Null, c),
                  Call("announce", Null, "Command recognized: " \o c)>>
                \o own \o generic

\* "add" was matched for a caller that registered onAdd and onCommand: four
\* calls, the handler before onCommand.
C12_Witness ==
  /\ lastOp.op = "onresult"
  /\ lastOp.ret = "add"
  /\ options.onCommand
  /\ "add" \in options.handlers
  /\ Len(log) = 4
  /\ log[3].k = "handler"
  /\ log[4].k = "onCommand"

\* C13: the end event of the owned session, arriving while the hook is
\* listening, restarts the session without isListening becoming false.
C13_EndKeepsListening ==
  [][ (lastOp'.op = "onend" /\ recognitionRef = lastOp'.s /\ isListening) =>
        /\ CallsTo(log', {"start", "startThrew"}) # {}
        /\ isListening' ]_vars

\* C16: a handler in which recognition.start() throws leaves isListening and
\* the owned handle as they were and calls neither announce nor speak.
C16_StartFailureLeavesState ==
  [][ CallsTo(log', {"startThrew"}) # {} =>
        /\ isListening' = isListening
        /\ recognitionRef' = recognitionRef
        /\ CallsTo(log', {"announce", "speak"}) = {} ]_vars

\* C17: an event of a session that is not the owned handle does not change
\* isListening.
C17_ForeignEventsKeepIsListening ==
  [][ ( /\ lastOp'.op \in {"onstart", "onend", "onresult", "onerror"}
        /\ lastOp'.s # recognitionRef ) =>
        isListening' = isListening ]_vars

\* The owned session has just ended
OwnedSessionEnded ==
  lastOp.op = "onend" /\ recognitionRef = lastOp.s

\* C14: with neither stop nor teardown requested, the end handler of the
\* owned session always calls start() on that session, and on an engine that
\* accepts the restarts and delivers its start events the hook is listening
\* again after every such end event, however often the cycle has run.
C14_RestartCycleForever ==
  /\ [](OwnedSessionEnded =>
          \E i \in CallsTo(log, {"start"}) : log[i].s = lastOp.s)
  /\ (OwnedSessionEnded ~> isListening)

\* The owned session ended after a command had been heard on it and is
\* being restarted.
C14_Witness ==
  /\ OwnedSessionEnded
  /\ engine[lastOp.s] = "starting"
  /\ lastCommand # "none"
  /\ ~isListening

\* C15: the teardown releases the handle, and from the teardown on no
\* handler calls start(): the end event its stop() causes restarts nothing,
\* whether delivered after the cleanup or before it has cleared the handle.
C15_TeardownBypassesRestart ==
  phase = "unmounted" =>
    /\ recognitionRef = Null
    /\ CallsTo(log, {"start", "startThrew"}) = {}

\* C18: once a not-allowed error has arrived, and until startListening or
\* toggleListening is called, no handler calls start() and isListening does
\* not become true.
C18_NoRestartAfterDenial ==
  [][ (denied /\ lastOp'.op \notin {"start", "toggle"}) =>
        /\ CallsTo(log', {"start", "startThrew"}) = {}
        /\ ~isListening' ]_vars

\* The start requests that passed the isSupported guard: each constructs a session
StartsAccepted ==
  Cardinality({s \in Sessions : engine[s] # "none"})

\* C19: the activation announcements never outnumber the accepted start
\* requests.
C19_OneActivationPerStart ==
  activations <= StartsAccepted

====
